---- MODULE Spec2Model ----
(***************************************************************************)
(* Model of teaching-assistant/src/components/NavigationSidebar.tsx:       *)
(*   - NavigationSidebar: the open flag, the menu click handler            *)
(*     (handleMenuClick / handleExitClick) and the two toggle buttons;     *)
(*   - AvatarContainer: the listener effect, the one-second interval       *)
(*     effect and the three SDK event callbacks.                           *)
(* An async handler is split at its await: the part up to the await is one *)
(* action, the part after the promise settles is another (the microtask    *)
(* continuations that follow a settlement run before any other event).     *)
(***************************************************************************)
EXTENDS Naturals, Integers, Sequences, FiniteSets, Bags

VARIABLES
    open,           \* NavigationSidebar: useState(false)
    currentView,    \* useViewContext().currentView
    anamClient,     \* useAnamContext().anamClient: 0 is null, else a client id
    pending,        \* bag of handleMenuClick invocations suspended at stopStreaming
    lastDone,       \* the handleMenuClick invocation the last step ran to its end, if any
    switchStops,    \* stopStreaming calls of the switch path since the view became "Demo"
    last,           \* the event handled by the last step
    mounted,        \* AvatarContainer is mounted
    inst,           \* the number of the mounted AvatarContainer instance (its callbacks' identity)
    isClientInitialized, \* useAnamContext().isClientInitialized
    videoRef,       \* videoRef.current is an element
    audioRef,       \* audioRef.current is an element
    loading,        \* useState(true)
    loadingText,    \* useState("Connecting...")
    secondsElapsed, \* useState(0)
    listeners,      \* bag of the registrations [client, event, cb] held by the SDK clients
    intervals,      \* bag of the active setInterval timers, each the instance that set it
    streams,        \* streamToVideoAndAudioElements promises not settled yet
    effectClient,   \* the anamClient the current listener effect closed over
    lastStart       \* the startStreaming run of the last step, if any

\* ----------------------------------------------------------------- bounds
MaxPending == 2
NumClients == 2
MaxMounts == 2
MaxSeconds == 2
MaxStreams == 2

Clients == 1..NumClients

avatarVars ==
    <<mounted, inst, isClientInitialized, videoRef, audioRef, loading, loadingText,
      secondsElapsed, listeners, intervals, streams, effectClient, lastStart>>

navVars == <<open, currentView, pending, lastDone, switchStops>>

\* ------------------------------------------------------- NavigationSidebar
Menus ==
    << [title |-> "Lessons",    navigateTo |-> "Demo",       clickable |-> TRUE],
       [title |-> "Vocabulary", navigateTo |-> "Vocabulary", clickable |-> FALSE],
       [title |-> "Practice",   navigateTo |-> "Practice",   clickable |-> FALSE],
       [title |-> "Progress",   navigateTo |-> "Progress",   clickable |-> FALSE],
       [title |-> "Settings",   navigateTo |-> "Settings",   clickable |-> TRUE],
       [title |-> "Exit",       navigateTo |-> "Initial",    clickable |-> TRUE] >>

Call(op, arg) == [op |-> op, arg |-> arg]

StopStreaming == Call("stopStreaming", "")
Settled(outcome) == Call("settled", outcome)
RouterPush(path) == Call("router.push", path)
ChangeView(view) == Call("changeView", view)
SetOpen(b) == Call("setOpen", IF b THEN "true" ELSE "false")
LoggerInfo == Call("logger.info", "stopped streaming")
LoggerError == Call("logger.error", "Failed to stop streaming:")
ConsoleError == Call("console.error", "")

NoHandler ==
    [navigateTo |-> "", view |-> "", hasClient |-> FALSE, toggled |-> FALSE,
     outcome |-> "", calls |-> << >>]

\* An invocation of the handler of the current render: it closes over the
\* render's currentView and anamClient.
Handler(navigateTo, calls, outcome) ==
    [navigateTo |-> navigateTo, view |-> currentView, hasClient |-> anamClient # 0,
     toggled |-> FALSE, outcome |-> outcome, calls |-> calls]

\* The calls made on a promise that settled with outcome, .catch(handler) included.
CatchSwitch(outcome) ==
    IF outcome = "rejected" THEN << Settled(outcome), LoggerError >>
    ELSE << Settled(outcome) >>

CatchExit(outcome) ==
    IF outcome = "rejected" THEN << Settled(outcome), ConsoleError >>
    ELSE << Settled(outcome) >>

HandleExitClickSync_NoAwait(client) ==
    (IF client # 0 THEN << StopStreaming >> ELSE << >>)
        \o << RouterPush("/"), ChangeView("Demo"), SetOpen(FALSE) >>

\* handleExitClick up to its first await (the whole of it when there is no client).
HandleExitClickSync(client) ==
    IF client # 0 THEN << StopStreaming >>
    ELSE << RouterPush("/"), ChangeView("Demo"), SetOpen(FALSE) >>

\* handleExitClick after the stopStreaming promise settled.
HandleExitClickResume(outcome) ==
    CatchExit(outcome)
        \o << LoggerInfo, RouterPush("/"), ChangeView("Demo"), SetOpen(FALSE) >>

MenuClickTail_Missing == << >>

\* handleMenuClick, line 166, reached on every clickable path.
MenuClickTail == << SetOpen(FALSE) >>

ShouldStop(view, navigateTo, client) ==
    view = "Demo" /\ navigateTo # "Demo" /\ client # 0

\* handleMenuClick's else branch after the optional stopStreaming.
SwitchTail(navigateTo) == << ChangeView(navigateTo), LoggerInfo >>

SwitchResume_Rethrow(navigateTo, outcome) ==
    IF outcome = "rejected" THEN CatchSwitch(outcome)
    ELSE CatchSwitch(outcome) \o SwitchTail(navigateTo) \o MenuClickTail

SwitchResume(navigateTo, outcome) ==
    CatchSwitch(outcome) \o SwitchTail(navigateTo) \o MenuClickTail

ExitResume(outcome) == HandleExitClickResume(outcome) \o MenuClickTail

\* The calls of a clickable click up to its first await, or to its end.
ClickCalls(view, navigateTo, client) ==
    IF navigateTo = "Initial"
    THEN IF client # 0 THEN HandleExitClickSync(client)
         ELSE HandleExitClickSync(client) \o MenuClickTail
    ELSE IF ShouldStop(view, navigateTo, client)
         THEN << StopStreaming >>
         ELSE SwitchTail(navigateTo) \o MenuClickTail

Awaiting(calls) == calls # << >> /\ calls[Len(calls)] = StopStreaming

RECURSIVE ViewAfter(_, _)
ViewAfter(view, calls) ==
    IF calls = << >> THEN view
    ELSE ViewAfter(IF Head(calls).op = "changeView" THEN Head(calls).arg ELSE view,
                   Tail(calls))

RECURSIVE OpenAfter(_, _)
OpenAfter(o, calls) ==
    IF calls = << >> THEN o
    ELSE OpenAfter(IF Head(calls).op = "setOpen" THEN Head(calls).arg = "true" ELSE o,
                   Tail(calls))

\* The state after a handler ran the calls of h to its end.
Finish(h) ==
    /\ currentView' = ViewAfter(currentView, h.calls)
    /\ open' = OpenAfter(open, h.calls)
    /\ lastDone' = h
    /\ switchStops' =
          IF currentView # "Demo" /\ ViewAfter(currentView, h.calls) = "Demo"
          THEN 0 ELSE switchStops

ClickableMenuClick(navigateTo) ==
    LET calls == ClickCalls(currentView, navigateTo, anamClient) IN
    IF Awaiting(calls)
    THEN /\ BagCardinality(pending) < MaxPending
         /\ pending' = pending (+) SetToBag({Handler(navigateTo, calls, "pending")})
         /\ switchStops' = IF navigateTo = "Initial" THEN switchStops ELSE switchStops + 1
         /\ lastDone' = NoHandler
         /\ UNCHANGED <<open, currentView>>
    ELSE /\ Finish(Handler(navigateTo, calls, "none"))
         /\ UNCHANGED pending

HandleMenuClick_NoGuard(navigateTo, clickable) ==
    ClickableMenuClick(navigateTo)

HandleMenuClick(navigateTo, clickable) ==
    IF ~clickable THEN lastDone' = NoHandler /\ UNCHANGED <<open, currentView, pending, switchStops>>
    ELSE ClickableMenuClick(navigateTo)

\* <li onClick={() => handleMenuClick(navigateTo, clickable)}>
MenuClick(m) ==
    /\ HandleMenuClick(Menus[m].navigateTo, Menus[m].clickable)
    /\ last' = [kind |-> "click", arg |-> Menus[m].title]
    /\ UNCHANGED anamClient
    /\ UNCHANGED avatarVars

\* The stopStreaming promise of the pending invocation h settles; h runs to its end.
StopSettles(h, outcome) ==
    /\ BagIn(h, pending)
    /\ LET rest == IF h.navigateTo = "Initial" THEN ExitResume(outcome)
                   ELSE SwitchResume(h.navigateTo, outcome)
       IN  Finish([h EXCEPT !.outcome = outcome, !.calls = h.calls \o rest])
    /\ pending' = pending (-) SetToBag({h})
    /\ last' = [kind |-> "settle", arg |-> outcome]
    /\ UNCHANGED anamClient
    /\ UNCHANGED avatarVars

\* The pending invocations, each marked as having seen the open flag set meanwhile.
Toggled(bag) ==
    LET T(h) == [h EXCEPT !.toggled = TRUE]
        U(h) == [h EXCEPT !.toggled = FALSE]
    IN  [h \in {T(g) : g \in DOMAIN bag} |->
            CopiesIn(T(h), bag) + CopiesIn(U(h), bag)]

\* onClick={() => setOpen(!open)}
ToggleClick ==
    /\ open' = ~open
    /\ pending' = Toggled(pending)
    /\ lastDone' = NoHandler
    /\ last' = [kind |-> "toggle", arg |-> ""]
    /\ UNCHANGED <<currentView, anamClient, switchStops>>
    /\ UNCHANGED avatarVars

\* {!open && <IconButton onClick={() => setOpen(true)}>}
OpenButtonClick ==
    /\ ~open
    /\ open' = TRUE
    /\ pending' = Toggled(pending)
    /\ lastDone' = NoHandler
    /\ last' = [kind |-> "openButton", arg |-> ""]
    /\ UNCHANGED <<currentView, anamClient, switchStops>>
    /\ UNCHANGED avatarVars

\* The context provider hands the sidebar another client (or none).
NavClientChange(c) ==
    /\ c # anamClient
    /\ anamClient' = c
    /\ lastDone' = NoHandler
    /\ last' = [kind |-> "client", arg |-> ""]
    /\ UNCHANGED <<open, currentView, pending, switchStops>>
    /\ UNCHANGED avatarVars

\* --------------------------------------------------------- AvatarContainer
Events == {"CONNECTION_ESTABLISHED", "VIDEO_PLAY_STARTED", "CONNECTION_CLOSED"}

AddListener(event) == Call("addListener", event)
RemoveListener(event) == Call("removeListener", event)
StreamToVideoAndAudioElements == Call("streamToVideoAndAudioElements", "video,audio")

NoStart ==
    [initialized |-> FALSE, client |-> 0, video |-> FALSE, audio |-> FALSE, calls |-> << >>]

StartStreamingCalls_StreamFirst(initialized, client, video, audio) ==
    IF initialized /\ client # 0 /\ video /\ audio
    THEN << StreamToVideoAndAudioElements,
            AddListener("CONNECTION_ESTABLISHED"),
            AddListener("VIDEO_PLAY_STARTED"),
            AddListener("CONNECTION_CLOSED") >>
    ELSE << >>

\* The calls startStreaming makes on the client, in order.
StartStreamingCalls(initialized, client, video, audio) ==
    IF initialized /\ client # 0 /\ video /\ audio
    THEN << AddListener("CONNECTION_ESTABLISHED"),
            AddListener("VIDEO_PLAY_STARTED"),
            AddListener("CONNECTION_CLOSED"),
            StreamToVideoAndAudioElements >>
    ELSE << >>

CleanupCalls_None(client) == << >>

\* The calls the effect's cleanup makes on the client it closed over.
CleanupCalls(client) ==
    IF client # 0
    THEN << RemoveListener("CONNECTION_ESTABLISHED"),
            RemoveListener("VIDEO_PLAY_STARTED"),
            RemoveListener("CONNECTION_CLOSED") >>
    ELSE << >>

Registration(client, event, cb) == [client |-> client, event |-> event, cb |-> cb]

\* The client's registrations after the calls: addListener registers the callback
\* once more, removeListener drops one registration of it when there is one.
RECURSIVE ApplyCalls(_, _, _, _)
ApplyCalls(ls, calls, client, cb) ==
    IF calls = << >> THEN ls
    ELSE LET c == Head(calls)
             r == Registration(client, c.arg, cb)
             next == IF c.op = "addListener" THEN ls (+) SetToBag({r})
                     ELSE IF c.op = "removeListener" /\ BagIn(r, ls) THEN ls (-) SetToBag({r})
                     ELSE ls
         IN  ApplyCalls(next, Tail(calls), client, cb)

Started(calls) ==
    Cardinality({k \in 1..Len(calls) : calls[k] = StreamToVideoAndAudioElements})

\* The listener effect runs for instance cb: startStreaming() up to its await.
RunEffect(ls, cb, video, audio) ==
    LET calls == StartStreamingCalls(isClientInitialized', anamClient', video, audio) IN
    /\ streams + Started(calls) <= MaxStreams
    /\ listeners' = ApplyCalls(ls, calls, anamClient', cb)
    /\ streams' = streams + Started(calls)
    /\ effectClient' = anamClient'
    /\ lastStart' = [initialized |-> isClientInitialized', client |-> anamClient',
                     video |-> video, audio |-> audio, calls |-> calls]

SetInterval(timers, cb) == timers (+) SetToBag({cb})

ClearInterval_Leak(timers, cb) == timers

ClearInterval(timers, cb) == timers (-) SetToBag({cb})

\* The component mounts: fresh state, the refs are attached, both effects run.
Mount ==
    /\ ~mounted
    /\ inst < MaxMounts
    /\ mounted' = TRUE
    /\ inst' = inst + 1
    /\ loading' = TRUE
    /\ loadingText' = "Connecting..."
    /\ secondsElapsed' = 0
    /\ videoRef' = TRUE
    /\ audioRef' = TRUE
    /\ UNCHANGED <<anamClient, isClientInitialized>>
    /\ RunEffect(listeners, inst + 1, TRUE, TRUE)
    /\ intervals' = SetInterval(intervals, inst + 1)
    /\ last' = [kind |-> "mount", arg |-> ""]
    /\ UNCHANGED navVars

\* The component unmounts: both effects' cleanups run, the refs are detached.
Unmount ==
    /\ mounted
    /\ mounted' = FALSE
    /\ listeners' = ApplyCalls(listeners, CleanupCalls(effectClient), effectClient, inst)
    /\ intervals' = ClearInterval(intervals, inst)
    /\ videoRef' = FALSE
    /\ audioRef' = FALSE
    /\ effectClient' = 0
    /\ lastStart' = NoStart
    /\ last' = [kind |-> "unmount", arg |-> ""]
    /\ UNCHANGED <<anamClient, inst, isClientInitialized, loading, loadingText,
                   secondsElapsed, streams>>
    /\ UNCHANGED navVars

\* The context hands the component another client or initialized flag: when it is
\* mounted the effect's dependencies changed, so its cleanup runs, then the effect.
ContextChange(c, b) ==
    /\ <<c, b>> # <<anamClient, isClientInitialized>>
    /\ anamClient' = c
    /\ isClientInitialized' = b
    /\ IF mounted
       THEN RunEffect(ApplyCalls(listeners, CleanupCalls(effectClient), effectClient, inst),
                      inst, videoRef, audioRef)
       ELSE /\ lastStart' = NoStart
            /\ UNCHANGED <<listeners, streams, effectClient>>
    /\ last' = [kind |-> "context", arg |-> ""]
    /\ UNCHANGED <<mounted, inst, videoRef, audioRef, loading, loadingText,
                   secondsElapsed, intervals>>
    /\ UNCHANGED navVars

UiState == [loading |-> loading, loadingText |-> loadingText]

OnConnectionEstablished_HidesSpinner(ui) ==
    [ui EXCEPT !.loadingText = "Connected to a Persona.", !.loading = FALSE]

OnConnectionEstablished(ui) == [ui EXCEPT !.loadingText = "Connected to a Persona."]

OnVideoStartedStreaming(ui) == [ui EXCEPT !.loading = FALSE]

OnConnectionClosed(ui) == [ui EXCEPT !.loading = FALSE]

Callback(event, ui) ==
    IF event = "CONNECTION_ESTABLISHED" THEN OnConnectionEstablished(ui)
    ELSE IF event = "VIDEO_PLAY_STARTED" THEN OnVideoStartedStreaming(ui)
    ELSE OnConnectionClosed(ui)

\* Client c emits the event: every callback registered for it runs. A callback of
\* an instance that is not mounted sets the state of no mounted component.
EmitEvent(c, e) ==
    /\ \E r \in BagToSet(listeners) : r.client = c /\ r.event = e
    /\ LET live == mounted /\ BagIn(Registration(c, e, inst), listeners)
           ui == IF live THEN Callback(e, UiState) ELSE UiState
       IN  /\ loading' = ui.loading
           /\ loadingText' = ui.loadingText
    /\ lastStart' = NoStart
    /\ last' = [kind |-> "emit", arg |-> e]
    /\ UNCHANGED <<anamClient, mounted, inst, isClientInitialized, videoRef, audioRef,
                   secondsElapsed, listeners, intervals, streams, effectClient>>
    /\ UNCHANGED navVars

TickUpdate_Wrap(prev) == (prev + 1) % 2

\* setSecondsElapsed((prev) => prev + 1)
TickUpdate(prev) == prev + 1

\* The timer set by instance t fires.
Tick(t) ==
    /\ BagIn(t, intervals)
    /\ secondsElapsed < MaxSeconds
    /\ secondsElapsed' = IF mounted /\ t = inst THEN TickUpdate(secondsElapsed)
                         ELSE secondsElapsed
    /\ lastStart' = NoStart
    /\ last' = [kind |-> "tick", arg |-> ""]
    /\ UNCHANGED <<anamClient, mounted, inst, isClientInitialized, videoRef, audioRef,
                   loading, loadingText, listeners, intervals, streams, effectClient>>
    /\ UNCHANGED navVars

\* A streamToVideoAndAudioElements promise settles; a rejection goes to errorHandler.
StreamSettles(outcome) ==
    /\ streams > 0
    /\ streams' = streams - 1
    /\ lastStart' = NoStart
    /\ last' = [kind |-> "stream", arg |-> outcome]
    /\ UNCHANGED <<anamClient, mounted, inst, isClientInitialized, videoRef, audioRef,
                   loading, loadingText, secondsElapsed, listeners, intervals, effectClient>>
    /\ UNCHANGED navVars

\* DemoControls holds setSecondsElapsed; it hands the counter back as it got it.
DemoControlsSetSeconds(prev) == prev

DemoControlsRender ==
    /\ mounted
    /\ secondsElapsed' = DemoControlsSetSeconds(secondsElapsed)
    /\ lastStart' = NoStart
    /\ last' = [kind |-> "controls", arg |-> ""]
    /\ UNCHANGED <<anamClient, mounted, inst, isClientInitialized, videoRef, audioRef,
                   loading, loadingText, listeners, intervals, streams, effectClient>>
    /\ UNCHANGED navVars

vars ==
    <<open, currentView, anamClient, pending, lastDone, switchStops, last,
      mounted, inst, isClientInitialized, videoRef, audioRef, loading, loadingText,
      secondsElapsed, listeners, intervals, streams, effectClient, lastStart>>

Init ==
    /\ open = FALSE
    /\ currentView = "Demo"
    /\ anamClient \in 0..NumClients
    /\ pending = EmptyBag
    /\ lastDone = NoHandler
    /\ switchStops = 0
    /\ last = [kind |-> "init", arg |-> ""]
    /\ mounted = FALSE
    /\ inst = 0
    /\ isClientInitialized \in BOOLEAN
    /\ videoRef = FALSE
    /\ audioRef = FALSE
    /\ loading = TRUE
    /\ loadingText = "Connecting..."
    /\ secondsElapsed = 0
    /\ listeners = EmptyBag
    /\ intervals = EmptyBag
    /\ streams = 0
    /\ effectClient = 0
    /\ lastStart = NoStart

NextNav ==
    \/ \E m \in 1..Len(Menus) : MenuClick(m)
    \/ \E h \in BagToSet(pending), outcome \in {"resolved", "rejected"} : StopSettles(h, outcome)
    \/ ToggleClick
    \/ OpenButtonClick
    \/ \E c \in 0..NumClients : NavClientChange(c)

NextAvatar ==
    \/ Mount
    \/ Unmount
    \/ \E c \in 0..NumClients, b \in BOOLEAN : ContextChange(c, b)
    \/ \E c \in Clients, e \in Events : EmitEvent(c, e)
    \/ \E t \in BagToSet(intervals) : Tick(t)
    \/ \E outcome \in {"resolved", "rejected"} : StreamSettles(outcome)
    \/ DemoControlsRender

SpecNav == Init /\ [][NextNav]_vars

SpecAvatar == Init /\ [][NextAvatar]_vars

\* ------------------------------------------------------------------ claims
NonClickable == {Menus[m].title : m \in {k \in 1..Len(Menus) : ~Menus[k].clickable}}

RECURSIVE UiCalls(_)
UiCalls(calls) ==
    IF calls = << >> THEN << >>
    ELSE IF Head(calls).op \in {"router.push", "changeView", "setOpen"}
         THEN << Head(calls) >> \o UiCalls(Tail(calls))
         ELSE UiCalls(Tail(calls))

Count(calls, op) == Cardinality({k \in 1..Len(calls) : calls[k].op = op})

\* C1: a click on a non-clickable entry calls neither router.push, changeView nor
\* stopStreaming (no handler runs any call, none is left pending) and leaves the
\* open flag and the current view as they were.
C1_NonClickableNoEffect ==
    [][(last'.kind = "click" /\ last'.arg \in NonClickable)
        => /\ open' = open
           /\ currentView' = currentView
           /\ pending' = pending
           /\ switchStops' = switchStops
           /\ lastDone' = NoHandler]_vars

C1_Witness ==
    /\ last.kind = "click"
    /\ last.arg = "Vocabulary"
    /\ open
    /\ currentView = "Settings"

\* C2: an Exit click with a client calls stopStreaming and does nothing else until
\* the promise settles; router.push("/") and changeView("Demo") follow the
\* settlement. Without a client router.push("/") and changeView("Demo") happen at
\* once and stopStreaming is not called. Either way the view ends as "Demo".
ExitAfterStop(calls) ==
    \E i, j, k, l \in 1..Len(calls) :
        /\ i < j /\ j < k /\ k < l
        /\ calls[i] = StopStreaming
        /\ calls[j].op = "settled"
        /\ calls[k] = RouterPush("/")
        /\ calls[l] = ChangeView("Demo")

C2_ExitStopsThenNavigates ==
    /\ \A h \in BagToSet(pending) :
          h.navigateTo = "Initial" => h.hasClient /\ h.calls = << StopStreaming >>
    /\ (last.kind = "click" /\ last.arg = "Exit")
          => IF anamClient # 0
             THEN \E h \in BagToSet(pending) : h.navigateTo = "Initial"
             ELSE lastDone.navigateTo = "Initial" /\ ~lastDone.hasClient
    /\ lastDone.navigateTo = "Initial"
          => /\ currentView = "Demo"
             /\ Count(lastDone.calls, "router.push") = 1
             /\ IF lastDone.hasClient
                THEN Count(lastDone.calls, "stopStreaming") = 1 /\ ExitAfterStop(lastDone.calls)
                ELSE /\ Count(lastDone.calls, "stopStreaming") = 0
                     /\ UiCalls(lastDone.calls)
                          = << RouterPush("/"), ChangeView("Demo"), SetOpen(FALSE), SetOpen(FALSE) >>

C2_Witness ==
    /\ lastDone.navigateTo = "Initial"
    /\ lastDone.hasClient
    /\ lastDone.view = "Settings"
    /\ last.kind = "settle"

\* C3: between the view becoming "Demo" and the view leaving it, the switch path
\* of handleMenuClick calls stopStreaming at most once.
C3_StopOncePerSwitch == switchStops <= 1

\* C4: a handler whose stopStreaming promise settled, rejected or resolved, logs a
\* rejection and goes on: it makes the same router.push, changeView and setOpen
\* calls either way, and leaves the view as the target and the sidebar closed.
ExpectedUiCalls(navigateTo) ==
    IF navigateTo = "Initial"
    THEN << RouterPush("/"), ChangeView("Demo"), SetOpen(FALSE), SetOpen(FALSE) >>
    ELSE << ChangeView(navigateTo), SetOpen(FALSE) >>

C4_RejectionDoesNotBlock ==
    lastDone.outcome \in {"resolved", "rejected"}
        => /\ UiCalls(lastDone.calls) = ExpectedUiCalls(lastDone.navigateTo)
           /\ currentView = (IF lastDone.navigateTo = "Initial" THEN "Demo"
                             ELSE lastDone.navigateTo)
           /\ ~open
           /\ lastDone.outcome = "rejected"
                 => Count(lastDone.calls, "logger.error")
                      + Count(lastDone.calls, "console.error") = 1

C4_Witness ==
    /\ lastDone.outcome = "rejected"
    /\ lastDone.navigateTo = "Settings"
    /\ currentView = "Settings"

\* C5: every callback is registered at most once per client and event; while the
\* panel is mounted the registrations are those of the mounted instance on the
\* current client, and after unmount no client holds a registration.
Registered(c, e) ==
    LET rs == {r \in BagToSet(listeners) : r.client = c /\ r.event = e}
    IN  IF rs = {} THEN 0
        ELSE BagCardinality([r \in rs |-> CopiesIn(r, listeners)])

C5_ListenersPaired ==
    /\ \A c \in Clients, e \in Events : Registered(c, e) <= 1
    /\ ~mounted => listeners = EmptyBag
    /\ mounted => \A r \in BagToSet(listeners) : r.cb = inst /\ r.client = anamClient

C5_Witness ==
    /\ mounted
    /\ inst = 2
    /\ last.kind = "context"
    /\ \A e \in Events : Registered(anamClient, e) = 1

\* C6: a tick of a mounted panel adds exactly 1 to the counter; a mounted panel
\* has exactly one active interval, an unmounted one has none, and the counter
\* does not change while the panel stays unmounted.
C6_TickByOne ==
    /\ [](BagCardinality(intervals) = (IF mounted THEN 1 ELSE 0))
    /\ [](mounted => BagIn(inst, intervals))
    /\ [][/\ (last'.kind = "tick" /\ mounted) => secondsElapsed' = secondsElapsed + 1
          /\ (~mounted /\ ~mounted') => secondsElapsed' = secondsElapsed]_vars

C6_Witness ==
    /\ ~mounted
    /\ secondsElapsed = 2
    /\ inst = 1

\* C7: the counter is a natural number, is 0 when the panel mounts and never
\* goes down while the panel stays mounted.
C7_CounterMonotone ==
    /\ [](secondsElapsed \in Nat)
    /\ [][/\ last'.kind = "mount" => secondsElapsed' = 0
          /\ (mounted /\ mounted') => secondsElapsed' >= secondsElapsed]_vars

C7_Witness ==
    /\ mounted
    /\ secondsElapsed = 2
    /\ last.kind = "controls"

\* C8: a startStreaming run whose four conditions hold registers the three
\* listeners and then calls streamToVideoAndAudioElements, once; a run with a
\* condition false makes no call, and the panel then holds no registration.
StreamsAfterSubscribing(calls) ==
    /\ Count(calls, "streamToVideoAndAudioElements") = 1
    /\ Count(calls, "addListener") = 3
    /\ \A e \in Events :
          \E i, j \in 1..Len(calls) :
              i < j /\ calls[i] = AddListener(e) /\ calls[j] = StreamToVideoAndAudioElements

C8_SubscribeThenStream ==
    LET ok == lastStart.initialized /\ lastStart.client # 0
                 /\ lastStart.video /\ lastStart.audio
    IN  /\ ok => StreamsAfterSubscribing(lastStart.calls)
        /\ ~ok => lastStart.calls = << >>
        /\ (mounted /\ last.kind \in {"mount", "context"})
              => /\ lastStart.initialized = isClientInitialized
                 /\ lastStart.client = anamClient
                 /\ lastStart.video /\ lastStart.audio
                 /\ ~ok => listeners = EmptyBag
                 /\ ok => \A e \in Events : Registered(anamClient, e) = 1

C8_Witness ==
    /\ last.kind = "context"
    /\ lastStart.calls # << >>
    /\ streams = 2

\* C10: the loading flag is true when the panel mounts; it becomes false only on
\* a video-play-started or connection-closed event and becomes true again only by
\* a new mount; a connection-established event and a settled stream promise leave
\* it as it was.
C10_LoadingOnlyFalls ==
    [][/\ last'.kind = "mount" => loading'
       /\ (loading /\ ~loading')
             => last'.kind = "emit" /\ last'.arg \in {"VIDEO_PLAY_STARTED", "CONNECTION_CLOSED"}
       /\ (~loading /\ loading') => last'.kind = "mount"
       /\ (last'.kind = "emit" /\ last'.arg = "CONNECTION_ESTABLISHED") => loading' = loading
       /\ last'.kind = "stream" => loading' = loading /\ loadingText' = loadingText]_vars

C10_Witness ==
    /\ mounted
    /\ ~loading
    /\ loadingText = "Connected to a Persona."
    /\ last.kind = "stream"
    /\ last.arg = "rejected"

\* C9: a step that runs a clickable click's handler to its end leaves the
\* sidebar closed, whatever was toggled while the handler was suspended.
C9_ClickEndsClosed == lastDone # NoHandler => ~open

C9_Witness ==
    /\ lastDone.toggled
    /\ lastDone.navigateTo = "Settings"
    /\ last.kind = "settle"
    /\ ~open

====
